---- MODULE Spec2Model ----
(***************************************************************************)
(* A model of play_music: the component tree of main2.py (KeyConfig, Rest, *)
(* Note, Chord, Series, Music, merge_wave) and the waveform merge of       *)
(* main.py (Music._marge).                                                 *)
(*                                                                         *)
(* Representation.                                                         *)
(*  - A waveform (numpy array) is a sequence of integer samples.           *)
(*  - A KeyConfig object lives in `heap` and is named by its reference, a  *)
(*    position of heap; reference 0 is Python's None.                      *)
(*  - A str is a sequence of one-character strings.                        *)
(*  - A raised exception is a result whose status is the exception's name. *)
(*  - A frequency 440 * 2**(e/12) is represented by e, its distance from   *)
(*    A4 in semitones.                                                     *)
(*  - Durations are whole numbers of quarter notes and sample counts are   *)
(*    computed in exact arithmetic.  The code computes them in doubles,    *)
(*    which can come out one lower when 60 * rate / bpm is a whole number  *)
(*    that 60 / bpm does not reach exactly (bpm = 11, rate = 11: 59).      *)
(*  - Samples are integers, so sums of samples are exact.                  *)
(***************************************************************************)
EXTENDS Integers, Sequences, FiniteSets, TLC

VARIABLES
    heap,       \* the KeyConfig objects alive between calls, by reference
    component,  \* Music.component: the tree handed to Music
    bpm,        \* Music.bpm
    rate,       \* Music.rate
    wave1,      \* first operand of a waveform merge
    wave2,      \* second operand of a waveform merge
    scale,      \* the scale string of a Note under test
    out         \* what the last call returned or raised

vars == <<heap, component, bpm, rate, wave1, wave2, scale, out>>

\* ------------------------------------------------------------ bounds
MaxWaveLen == 5
MaxAdj == 1
MaxScaleLen == 3
MaxChildren == 3
MaxRate == 3
MaxLength == 2

\* ------------------------------------------------------------ helpers
Max(a, b) == IF a > b THEN a ELSE b

RECURSIVE SeqsUpTo(_, _)
SeqsUpTo(S, n) ==
    IF n = 0 THEN {<<>>}
    ELSE LET shorter == SeqsUpTo(S, n - 1)
         IN  shorter \cup {Append(s, e) : s \in {t \in shorter : Len(t) = n - 1}, e \in S}

\* ------------------------------------------------------------ merge_wave
\* new_wave = long_wave.copy(); new_wave[:len(short_wave)] += short_wave
overlay(long_wave, short_wave) ==
    [i \in 1..Len(long_wave) |->
        IF i <= Len(short_wave) THEN long_wave[i] + short_wave[i] ELSE long_wave[i]]

\* A slip in the branch: the first operand is always taken as the long one.
merge_wave_first_long(w1, w2) ==
    [i \in 1..Len(w1) |-> IF i <= Len(w2) THEN w1[i] + w2[i] ELSE w1[i]]

merge_wave(w1, w2) ==
    IF Len(w1) > Len(w2) THEN overlay(w1, w2) ELSE overlay(w2, w1)

_marge(w1, w2) ==
    IF Len(w1) < Len(w2) THEN overlay(w2, w1) ELSE overlay(w1, w2)

\* ------------------------------------------------------------ KeyConfig
Letters == {"C", "D", "E", "F", "G", "A", "B"}

BASE_KEY_FACTOR ==
    [C |-> -9, D |-> -7, E |-> -5, F |-> -4, G |-> -2, A |-> 0, B |-> 2]

BASE_KEY_CHANGE ==
    [C |-> 0, D |-> 0, E |-> 0, F |-> 0, G |-> 0, A |-> 0, B |-> 0]

\* A scales argument is a str, [str |-> s], or a list of str, [list |-> l].
normalize_scale_argument(scales) ==
    IF "str" \in DOMAIN scales THEN <<scales.str>> ELSE scales.list

\* for scale in scale_list: self[scale] += factor
\* A key the dict does not hold raises KeyError; the letters before it in
\* the list have been changed by then.
RECURSIVE change_key_loop(_, _, _, _)
change_key_loop(conf, scale_list, i, factor) ==
    IF i > Len(scale_list) THEN [status |-> "ok", conf |-> conf]
    ELSE IF scale_list[i] \notin DOMAIN conf THEN [status |-> "KeyError", conf |-> conf]
    ELSE change_key_loop([conf EXCEPT ![scale_list[i]] = @ + factor],
                         scale_list, i + 1, factor)

change_key(conf, scales, signature) ==
    LET factor == IF signature = "#" THEN 1
                  ELSE IF signature = "b" THEN -1
                  ELSE 0
    IN  change_key_loop(conf, normalize_scale_argument(scales), 1, factor)

factor_for_key(conf, key) ==
    IF key \in DOMAIN BASE_KEY_FACTOR /\ key \in DOMAIN conf
    THEN [status |-> "ok", factor |-> BASE_KEY_FACTOR[key] + conf[key]]
    ELSE [status |-> "KeyError", factor |-> 0]

\* A new object on the heap.
alloc(h, conf) == [heap |-> Append(h, conf), ref |-> Len(h) + 1]

\* `x or KeyConfig()`: None and an empty dict are falsy.
truthy(h, ref) == ref # 0 /\ DOMAIN h[ref] # {}

or_KeyConfig(h, ref) ==
    IF truthy(h, ref) THEN [heap |-> h, ref |-> ref] ELSE alloc(h, BASE_KEY_CHANGE)

\* A slip: the sum is accumulated into key_conf1 itself, which is returned.
merge_in_place(h, key_conf1, key_conf2) ==
    LET k1 == or_KeyConfig(h, key_conf1)
        k2 == or_KeyConfig(k1.heap, key_conf2)
        h2 == k2.heap
    IN  [heap |-> [h2 EXCEPT ![k1.ref] =
                      [key \in DOMAIN h2[k1.ref] |-> h2[k1.ref][key] + h2[k2.ref][key]]],
         ref  |-> k1.ref]

\* A slip: the second operand is left out of the sum.
merge_drops_second(h, key_conf1, key_conf2) ==
    LET k1 == or_KeyConfig(h, key_conf1)
        k2 == or_KeyConfig(k1.heap, key_conf2)
        n  == alloc(k2.heap, BASE_KEY_CHANGE)
        h3 == n.heap
    IN  [heap |-> [h3 EXCEPT ![n.ref] =
                      [key \in DOMAIN h3[n.ref] |-> h3[n.ref][key] + h3[k1.ref][key]]],
         ref  |-> n.ref]

\* KeyConfig.merge
merge(h, key_conf1, key_conf2) ==
    LET k1 == or_KeyConfig(h, key_conf1)
        k2 == or_KeyConfig(k1.heap, key_conf2)
        n  == alloc(k2.heap, BASE_KEY_CHANGE)
        h3 == n.heap
    IN  [heap |-> [h3 EXCEPT ![n.ref] =
                      [key \in DOMAIN h3[n.ref] |->
                          h3[n.ref][key] + h3[k1.ref][key] + h3[k2.ref][key]]],
         ref  |-> n.ref]


\* KeyConfig.__init__: an argument is None, [none |-> TRUE], or a value.
None == [none |-> TRUE]

KeyConfig(scales, signature) ==
    IF "none" \notin DOMAIN scales /\ "none" \notin DOMAIN signature
    THEN change_key(BASE_KEY_CHANGE, scales, signature.str)
    ELSE [status |-> "ok", conf |-> BASE_KEY_CHANGE]

\* ------------------------------------------------------------ Note._freq_from_scale
LetterChars ==
    {"a", "b", "c", "d", "e", "f", "g", "A", "B", "C", "D", "E", "F", "G"}

AccidentalChars == {"b", "#"}

DigitValue ==
    [c \in {"0", "1", "2", "3", "4", "5", "6", "7", "8", "9"} |->
        CASE c = "0" -> 0 [] c = "1" -> 1 [] c = "2" -> 2 [] c = "3" -> 3
          [] c = "4" -> 4 [] c = "5" -> 5 [] c = "6" -> 6 [] c = "7" -> 7
          [] c = "8" -> 8 [] c = "9" -> 9]

DigitChars == DOMAIN DigitValue

\* The position after the longest run of digits that starts at p: [0-9]+ is
\* greedy, and giving a digit back never helps `$` to match.
RECURSIVE digits_end(_, _)
digits_end(s, p) ==
    IF p <= Len(s) /\ s[p] \in DigitChars THEN digits_end(s, p + 1) ELSE p

\* `$`: the end of the string, or just before a newline that ends it.
at_dollar(s, q) == q = Len(s) + 1 \/ (q = Len(s) /\ s[q] = "\n")

\* ([b#]?)([0-9]+)$ from position p, the accidental taken or not.
tail_matches(s, p) == digits_end(s, p) > p /\ at_dollar(s, digits_end(s, p))

NoMatch == [matched |-> FALSE]

\* re.match(r'([a-gA-G])([b#]?)([0-9]+)$', scale) and match.groups()
re_match(s) ==
    IF Len(s) = 0 \/ s[1] \notin LetterChars THEN NoMatch
    ELSE IF Len(s) >= 2 /\ s[2] \in AccidentalChars /\ tail_matches(s, 3)
    THEN [matched |-> TRUE, key |-> s[1], accidental |-> <<s[2]>>,
          octave_str |-> SubSeq(s, 3, digits_end(s, 3) - 1)]
    ELSE IF tail_matches(s, 2)
    THEN [matched |-> TRUE, key |-> s[1], accidental |-> <<>>,
          octave_str |-> SubSeq(s, 2, digits_end(s, 2) - 1)]
    ELSE NoMatch

\* str.upper() on one character
upper(c) ==
    CASE c = "a" -> "A" [] c = "b" -> "B" [] c = "c" -> "C" [] c = "d" -> "D"
      [] c = "e" -> "E" [] c = "f" -> "F" [] c = "g" -> "G" [] c = "h" -> "H"
      [] OTHER -> c

\* int(octave_str)
RECURSIVE int(_)
int(digits) ==
    IF Len(digits) = 0 THEN 0
    ELSE 10 * int(SubSeq(digits, 1, Len(digits) - 1)) + DigitValue[digits[Len(digits)]]

\* A slip: a flat raises the pitch as a sharp does.
accidental_factor_flat_up(accidental) ==
    IF accidental = <<"#">> THEN 1 ELSE IF accidental = <<"b">> THEN 1 ELSE 0

\* if accidental == '#': factor += 1 / elif accidental == 'b': factor -= 1
accidental_factor(accidental) ==
    IF accidental = <<"#">> THEN 1 ELSE IF accidental = <<"b">> THEN -1 ELSE 0

\* freq = 440 * (2**((octave - 4) + factor / 12)), as its semitones from A4
freq_semitones(octave, factor) == 12 * (octave - 4) + factor

\* Note._freq_from_scale.  key_conf in the result is the object looked up.
_freq_from_scale(h, s, key_conf) ==
    LET k == or_KeyConfig(h, key_conf)
        m == re_match(s)
    IN  IF ~m.matched
        THEN [status |-> "Exception", freq |-> 0, heap |-> k.heap, key_conf |-> k.ref]
        ELSE LET f == factor_for_key(k.heap[k.ref], upper(m.key))
             IN  IF f.status # "ok"
                 THEN [status |-> f.status, freq |-> 0, heap |-> k.heap, key_conf |-> k.ref]
                 ELSE [status   |-> "ok",
                       freq     |-> freq_semitones(int(m.octave_str),
                                        f.factor + accidental_factor(m.accidental)),
                       heap     |-> k.heap,
                       key_conf |-> k.ref]

\* ------------------------------------------------------------ generate_wave
\* int(x) of x = num / den: towards zero
trunc(num, den) ==
    IF (num >= 0) = (den > 0) THEN  (IF num >= 0 THEN num ELSE -num) \div (IF den > 0 THEN den ELSE -den)
    ELSE -((IF num >= 0 THEN num ELSE -num) \div (IF den > 0 THEN den ELSE -den))

\* A slip: the samples of one quarter note are truncated before the duration
\* multiplies them.
sample_count_per_quarter(length, tempo, sample_rate) ==
    IF tempo = 0 THEN [status |-> "ZeroDivisionError", n |-> 0]
    ELSE [status |-> "ok", n |-> length * trunc(60 * sample_rate, tempo)]

\* int(self.length * (60 / bpm) * rate)
sample_count(length, tempo, sample_rate) ==
    IF tempo = 0 THEN [status |-> "ZeroDivisionError", n |-> 0]
    ELSE [status |-> "ok", n |-> trunc(length * 60 * sample_rate, tempo)]

\* A call that raised: no waveform.  handed and lookups keep what happened
\* before the exception.
Fail(status, h, handed, lookups) ==
    [status |-> status, wave |-> <<>>, heap |-> h, handed |-> handed, lookups |-> lookups]

\* Rest.generate_wave: np.zeros(n)
Rest_generate_wave(node, tempo, sample_rate, key_conf, h) ==
    LET c == sample_count(node.length, tempo, sample_rate)
    IN  IF c.status # "ok" THEN Fail(c.status, h, {}, {})
        ELSE IF c.n < 0 THEN Fail("ValueError", h, {}, {})
        ELSE [status |-> "ok", wave |-> [t \in 1..c.n |-> 0], heap |-> h,
              handed |-> {}, lookups |-> {}]

\* np.sin(step * t) * rv.pdf(t / (n - 1)) is a real number the model does not
\* compute: an integer fixed by the same arguments stands for it.
tone_sample(freq, sample_rate, t, n) ==
    1 + (((freq + 1200) * (t + 1) + sample_rate + n) % 5)

\* Note.generate_wave
Note_generate_wave(node, tempo, sample_rate, key_conf, h, path) ==
    LET f == _freq_from_scale(h, node.scale, key_conf)
        c == sample_count(node.length, tempo, sample_rate)
    IN  IF f.status # "ok" THEN Fail(f.status, f.heap, {}, {})
        ELSE IF sample_rate = 0 \/ c.status # "ok" THEN Fail("ZeroDivisionError", f.heap, {},
                                                              {[path |-> path, conf |-> f.heap[f.key_conf]]})
        ELSE [status  |-> "ok",
              wave    |-> [i \in 1..Max(c.n, 0) |->
                              tone_sample(f.freq, sample_rate, i - 1, Max(c.n, 0))],
              heap    |-> f.heap,
              handed  |-> {},
              lookups |-> {[path |-> path, conf |-> f.heap[f.key_conf]]}]

\* functools.reduce(merge_wave, waves): waves[0] when there is one wave
RECURSIVE reduce_merge_wave(_, _, _)
reduce_merge_wave(acc, waves, i) ==
    IF i > Len(waves) THEN acc
    ELSE reduce_merge_wave(merge_wave(acc, waves[i]), waves, i + 1)

\* np.concatenate(waves)
RECURSIVE concatenate(_, _)
concatenate(waves, i) ==
    IF i > Len(waves) THEN <<>> ELSE waves[i] \o concatenate(waves, i + 1)

RECURSIVE generate_wave(_, _, _, _, _, _)
RECURSIVE render_components(_, _, _, _, _, _, _)

\* [c.generate_wave(bpm, rate, key_conf) for c in self.components]: the
\* children in order, up to the first one that raises.  acc collects the
\* waves, the heap, the references handed to children and the keys looked up.
render_components(components, i, tempo, sample_rate, key_conf, path, acc) ==
    IF i > Len(components) \/ acc.status # "ok" THEN acc
    ELSE LET r == generate_wave(components[i], tempo, sample_rate, key_conf,
                                acc.heap, Append(path, i))
         IN  render_components(components, i + 1, tempo, sample_rate, key_conf, path,
                 [status  |-> r.status,
                  waves   |-> Append(acc.waves, r.wave),
                  heap    |-> r.heap,
                  handed  |-> acc.handed \cup r.handed \cup {key_conf},
                  lookups |-> acc.lookups \cup r.lookups])

\* Chord.generate_wave
Chord_generate_wave(node, tempo, sample_rate, base_key_conf, h, path) ==
    LET key_conf == merge(h, node.key_conf, base_key_conf)
        rs == render_components(node.components, 1, tempo, sample_rate, key_conf.ref, path,
                  [status |-> "ok", waves |-> <<>>, heap |-> key_conf.heap,
                   handed |-> {}, lookups |-> {}])
    IN  IF rs.status # "ok" THEN Fail(rs.status, rs.heap, rs.handed, rs.lookups)
        ELSE IF Len(rs.waves) = 0 THEN Fail("TypeError", rs.heap, rs.handed, rs.lookups)
        ELSE [status |-> "ok", wave |-> reduce_merge_wave(rs.waves[1], rs.waves, 2),
              heap |-> rs.heap, handed |-> rs.handed, lookups |-> rs.lookups]

\* Series.generate_wave
Series_generate_wave(node, tempo, sample_rate, base_key_conf, h, path) ==
    LET key_conf == merge(h, node.key_conf, base_key_conf)
        rs == render_components(node.components, 1, tempo, sample_rate, key_conf.ref, path,
                  [status |-> "ok", waves |-> <<>>, heap |-> key_conf.heap,
                   handed |-> {}, lookups |-> {}])
    IN  IF rs.status # "ok" THEN Fail(rs.status, rs.heap, rs.handed, rs.lookups)
        ELSE IF Len(rs.waves) = 0 THEN Fail("ValueError", rs.heap, rs.handed, rs.lookups)
        ELSE [status |-> "ok", wave |-> concatenate(rs.waves, 1),
              heap |-> rs.heap, handed |-> rs.handed, lookups |-> rs.lookups]

\* MusicComponent.generate_wave, dispatched on the node's class
generate_wave(node, tempo, sample_rate, key_conf, h, path) ==
    CASE node.kind = "Rest"   -> Rest_generate_wave(node, tempo, sample_rate, key_conf, h)
      [] node.kind = "Note"   -> Note_generate_wave(node, tempo, sample_rate, key_conf, h, path)
      [] node.kind = "Chord"  -> Chord_generate_wave(node, tempo, sample_rate, key_conf, h, path)
      [] node.kind = "Series" -> Series_generate_wave(node, tempo, sample_rate, key_conf, h, path)

\* Constructors
Rest(length) == [kind |-> "Rest", length |-> length]
Note(s, length) == [kind |-> "Note", scale |-> s, length |-> length]
Chord(components, key_conf) ==
    [kind |-> "Chord", components |-> components, key_conf |-> key_conf]
Series(components, key_conf) ==
    [kind |-> "Series", components |-> components, key_conf |-> key_conf]

\* tone(scales, length): Chord([Note(scale, length) for scale in scale_list])
tone(scales, length) ==
    LET scale_list == normalize_scale_argument(scales)
    IN  Chord([i \in 1..Len(scale_list) |-> Note(scale_list[i], length)], 0)


\* ------------------------------------------------------------ SpecWave
SampleValues == {1, 2}
Waves == SeqsUpTo(SampleValues, MaxWaveLen)

Idle == [op |-> "none"]

InitWave ==
    /\ wave1 \in Waves
    /\ wave2 \in Waves
    /\ out = Idle
    /\ heap = <<>>
    /\ component = Idle
    /\ bpm = 0
    /\ rate = 0
    /\ scale = <<>>

CallMergeWave ==
    /\ out' = [op |-> "merge_wave", status |-> "ok", wave |-> merge_wave(wave1, wave2)]
    /\ UNCHANGED <<heap, component, bpm, rate, wave1, wave2, scale>>

CallMarge ==
    /\ out' = [op |-> "_marge", status |-> "ok", wave |-> _marge(wave1, wave2)]
    /\ UNCHANGED <<heap, component, bpm, rate, wave1, wave2, scale>>

NextWave == CallMergeWave \/ CallMarge

SpecWave == InitWave /\ [][NextWave]_vars

\* C1: merging any two sample sequences (either may be the longer, equal or
\* zero lengths included) returns a sequence as long as the longer operand
\* whose sample i is long[i] + short[i] below len(short) and long[i] from
\* there on; five 1s merged with three 2s give [3,3,3,1,1].
C1_MergeOverlay ==
    out.op \in {"merge_wave", "_marge"} =>
        LET long  == IF Len(wave1) >= Len(wave2) THEN wave1 ELSE wave2
            short == IF Len(wave1) >= Len(wave2) THEN wave2 ELSE wave1
        IN  /\ out.status = "ok"
            /\ Len(out.wave) = Max(Len(wave1), Len(wave2))
            /\ \A i \in 1..Len(long) :
                  out.wave[i] = IF i <= Len(short) THEN long[i] + short[i] ELSE long[i]
            /\ (wave1 = <<1, 1, 1, 1, 1>> /\ wave2 = <<2, 2, 2>>) =>
                  out.wave = <<3, 3, 3, 1, 1>>

C1_Witness ==
    /\ out.op = "merge_wave"
    /\ wave1 = <<2, 2, 2>>
    /\ wave2 = <<1, 1, 1, 1, 1>>
    /\ out.wave = <<3, 3, 3, 1, 1>>

\* ------------------------------------------------------------ SpecKey
ScaleArgs ==
    { [str |-> "F"], [list |-> <<"C", "F">>], [str |-> "H"], [list |-> <<"F", "H">>] }

Signatures == {"#", "b", "n"}

LookupKeys == {"F", "C", "A", "H"}

WithinAdj(conf) == \A key \in DOMAIN conf : conf[key] >= -MaxAdj /\ conf[key] <= MaxAdj

Refs(h) == 0..Len(h)

InitKey ==
    /\ heap = <<BASE_KEY_CHANGE, BASE_KEY_CHANGE>>
    /\ out = Idle
    /\ component = Idle
    /\ bpm = 0
    /\ rate = 0
    /\ wave1 = <<>>
    /\ wave2 = <<>>
    /\ scale = <<>>

CallChangeKey ==
    \E ref \in 1..Len(heap), scales \in ScaleArgs, signature \in Signatures :
        LET r == change_key(heap[ref], scales, signature)
        IN  /\ WithinAdj(r.conf)
            /\ heap' = [heap EXCEPT ![ref] = r.conf]
            /\ out' = [op |-> "change_key", status |-> r.status, ref |-> ref,
                       scales |-> scales, signature |-> signature]
            /\ UNCHANGED <<component, bpm, rate, wave1, wave2, scale>>

CallFactorForKey ==
    \E ref \in 1..Len(heap), key \in LookupKeys :
        LET r == factor_for_key(heap[ref], key)
        IN  /\ out' = [op |-> "factor_for_key", status |-> r.status, ref |-> ref,
                       key |-> key, factor |-> r.factor]
            /\ UNCHANGED <<heap, component, bpm, rate, wave1, wave2, scale>>

\* merge(a, b), merge(b, a), merge(merge(a, b), c) and merge(a, merge(b, c)),
\* one after the other; the objects they create are dropped afterwards.
CallMerge ==
    \E a \in Refs(heap), b \in Refs(heap), c \in Refs(heap) :
      \E ab \in {merge(heap, a, b)} :
      \E ba \in {merge(ab.heap, b, a)} :
      \E ab_c \in {merge(ba.heap, ab.ref, c)} :
      \E bc \in {merge(ab_c.heap, b, c)} :
      \E a_bc \in {merge(bc.heap, a, bc.ref)} :
        /\ out' = [op |-> "merge", status |-> "ok", a |-> a, b |-> b, c |-> c,
                   ab_ref |-> ab.ref,
                   ab |-> a_bc.heap[ab.ref], ba |-> a_bc.heap[ba.ref],
                   ab_c |-> a_bc.heap[ab_c.ref], a_bc |-> a_bc.heap[a_bc.ref]]
        /\ heap' = SubSeq(a_bc.heap, 1, Len(heap))
        /\ UNCHANGED <<component, bpm, rate, wave1, wave2, scale>>

NextKey == CallChangeKey \/ CallFactorForKey \/ CallMerge

SpecKey == InitKey /\ [][NextKey]_vars

\* The adjustments a reference stands for: all-zero for None.
Adj(h, ref) == IF ref = 0 THEN BASE_KEY_CHANGE ELSE h[ref]

\* C3: KeyConfig.merge(a, b) returns a new KeyConfig whose adjustment for each
\* of the seven letters is a[letter] + b[letter], None counting as all-zero
\* (so merging with None is an identity); merge is commutative and
\* associative.
C3_MergeSum ==
    out.op = "merge" =>
        /\ DOMAIN out.ab = Letters
        /\ \A key \in Letters :
              out.ab[key] = Adj(heap, out.a)[key] + Adj(heap, out.b)[key]
        /\ out.ab_ref \notin Refs(heap)
        /\ (out.b = 0 => out.ab = Adj(heap, out.a))
        /\ (out.a = 0 => out.ab = Adj(heap, out.b))
        /\ out.ab = out.ba
        /\ out.ab_c = out.a_bc
        /\ \A key \in Letters :
              out.ab_c[key] = Adj(heap, out.a)[key] + Adj(heap, out.b)[key]
                                + Adj(heap, out.c)[key]

C3_Witness ==
    /\ out.op = "merge"
    /\ out.a = 1 /\ out.b = 2 /\ out.c = 0
    /\ heap[1]["F"] = 1 /\ heap[2]["F"] = 1 /\ heap[2]["C"] = -1
    /\ out.ab["F"] = 2 /\ out.ab_c["C"] = -1

\* ------------------------------------------------------------ building a tree
Built == [op |-> "add"]

\* Chord.add / Series.add: self.components.append(component)
Add(pool) ==
    /\ component.kind \in {"Chord", "Series"}
    /\ Len(component.components) < MaxChildren
    /\ \E c \in pool :
          component' = [component EXCEPT !.components = Append(@, c)]
    /\ out' = Built
    /\ UNCHANGED <<heap, bpm, rate, wave1, wave2, scale>>

\* Series.add_rest: self.components.append(Rest(length))
AddRest(lengths) ==
    /\ component.kind = "Series"
    /\ Len(component.components) < MaxChildren
    /\ \E length \in lengths :
          component' = [component EXCEPT !.components = Append(@, Rest(length))]
    /\ out' = Built
    /\ UNCHANGED <<heap, bpm, rate, wave1, wave2, scale>>

\* Series.add_tone: self.components.append(Chord([Note(scale, length) ...]))
AddTone(scale_args, lengths) ==
    /\ component.kind = "Series"
    /\ Len(component.components) < MaxChildren
    /\ \E scales \in scale_args, length \in lengths :
          component' = [component EXCEPT !.components = Append(@, tone(scales, length))]
    /\ out' = Built
    /\ UNCHANGED <<heap, bpm, rate, wave1, wave2, scale>>

\* Music.play up to the waveform: self.component.generate_wave(self.bpm, self.rate).
\* The KeyConfigs the call created are dropped when it returns.
Play ==
    \E r \in {generate_wave(component, bpm, rate, 0, heap, <<>>)} :
        /\ out' = [op |-> "generate_wave", status |-> r.status, wave |-> r.wave,
                   handed |-> r.handed, lookups |-> r.lookups]
        /\ heap' = SubSeq(r.heap, 1, Len(heap))
        /\ UNCHANGED <<component, bpm, rate, wave1, wave2, scale>>

\* ------------------------------------------------------------ SpecScale
\* One Note, alone or nested, whose scale is any short string.
ScaleChars == {"a", "b", "C", "h", "#", "4", "\n"}

Strings == SeqsUpTo(ScaleChars, MaxScaleLen)

CtorArgs ==
    { [scales |-> None, signature |-> None],
      [scales |-> [list |-> <<"A", "B", "C">>], signature |-> [str |-> "b"]] }

Nestings(leaf) ==
    { leaf, Series(<<Rest(1), Chord(<<leaf>>, 1)>>, 0) }

InitScale ==
    /\ scale \in Strings
    /\ heap \in { <<KeyConfig(a.scales, a.signature).conf>> : a \in CtorArgs }
    /\ component \in Nestings(Note(scale, 1))
    /\ bpm = 60
    /\ rate = 2
    /\ out = Idle
    /\ wave1 = <<>>
    /\ wave2 = <<>>

CallFreqFromScale ==
    \E key_conf \in Refs(heap) :
      \E r \in {_freq_from_scale(heap, scale, key_conf)} :
        /\ out' = [op |-> "_freq_from_scale", status |-> r.status, freq |-> r.freq,
                   key_conf |-> key_conf, conf |-> r.heap[r.key_conf]]
        /\ heap' = SubSeq(r.heap, 1, Len(heap))
        /\ UNCHANGED <<component, bpm, rate, wave1, wave2, scale>>

\* KeyConfig(scales, signature): a key signature applied to a new KeyConfig
CallKeyConfig ==
    \E scales \in ScaleArgs, signature \in Signatures :
      \E r \in {KeyConfig(scales, [str |-> signature])} :
        /\ out' = [op |-> "KeyConfig", status |-> r.status, scales |-> scales,
                   signature |-> signature, conf |-> r.conf]
        /\ UNCHANGED <<heap, component, bpm, rate, wave1, wave2, scale>>

NextScale == CallFreqFromScale \/ Play \/ CallKeyConfig \/ CallFactorForKey

SpecScale == InitScale /\ [][NextScale]_vars

\* ------------------------------------------------------------ SpecRest
\* Trees of rests under many tempos and sample rates.
RestBpms == {7, 40, 60, 90, 120}

RestRates == 1..MaxRate

RestLengths == 0..MaxLength

RestLeaves == {Rest(length) : length \in RestLengths}

InitRest ==
    /\ component \in {Series(<<>>, 0), Chord(<<>>, 0)} \cup RestLeaves
    /\ bpm \in RestBpms
    /\ rate \in RestRates
    /\ heap = <<>>
    /\ out = Idle
    /\ wave1 = <<>>
    /\ wave2 = <<>>
    /\ scale = <<>>

NextRest == Add(RestLeaves) \/ AddRest(RestLengths) \/ Play

SpecRest == InitRest /\ [][NextRest]_vars

\* ------------------------------------------------------------ SpecRender
\* Trees of notes, rests, chords and series with their own KeyConfigs.
a4 == <<"a", "4">>
f4 == <<"f", "4">>
h4 == <<"h", "4">>
bb4 == <<"b", "b", "4">>
cs5 == <<"c", "#", "5">>

RenderBpms == {40, 60}

RenderRates == {1, 2}

Components ==
    { Rest(1),
      Note(a4, 2),
      Note(h4, 1),
      tone([list |-> <<f4, cs5>>], 1),
      Series(<<tone([str |-> f4], 1), Rest(1)>>, 2),
      Chord(<<Series(<<Note(bb4, 1)>>, 1), Note(f4, 2)>>, 2),
      Chord(<<>>, 0) }

ToneArgs == { [str |-> f4], [list |-> <<f4, cs5>>] }

ToneLengths == {1}

InitRender ==
    /\ heap = << KeyConfig([str |-> "F"], [str |-> "#"]).conf,
                 KeyConfig([list |-> <<"A", "B", "E">>], [str |-> "b"]).conf >>
    /\ component \in {Chord(<<>>, 0), Chord(<<>>, 1), Series(<<>>, 0), Series(<<>>, 1)}
    /\ bpm \in RenderBpms
    /\ rate \in RenderRates
    /\ out = Idle
    /\ wave1 = <<>>
    /\ wave2 = <<>>
    /\ scale = <<>>

NextRender ==
    \/ Add(Components)
    \/ AddRest(ToneLengths)
    \/ AddTone(ToneArgs, ToneLengths)
    \/ Play

SpecRender == InitRender /\ [][NextRender]_vars

\* The note-name grammar: a letter A-G in either case, an optional '#' or
\* 'b', then one or more digits, and nothing else.
Accidentals == {<<>>, <<"#">>, <<"b">>}

IsDigits(ds) == Len(ds) >= 1 /\ \A i \in 1..Len(ds) : ds[i] \in DigitChars

Decomposes(s, letter, accidental, k) ==
    /\ k \in 2..Len(s)
    /\ IsDigits(SubSeq(s, k, Len(s)))
    /\ s = <<letter>> \o accidental \o SubSeq(s, k, Len(s))

WellFormed(s) ==
    \E letter \in LetterChars, accidental \in Accidentals, k \in 2..Len(s) :
        Decomposes(s, letter, accidental, k)

\* The natural letter a note letter names, whatever its case.
LetterName(c) ==
    CASE c \in {"a", "A"} -> "A" [] c \in {"b", "B"} -> "B" [] c \in {"c", "C"} -> "C"
      [] c \in {"d", "D"} -> "D" [] c \in {"e", "E"} -> "E" [] c \in {"f", "F"} -> "F"
      [] c \in {"g", "G"} -> "G"

AccidentalSteps(accidental) ==
    CASE accidental = <<"#">> -> 1 [] accidental = <<"b">> -> -1 [] OTHER -> 0

\* The number a string of decimal digits writes, and back.
RECURSIVE OctaveOf(_)
OctaveOf(ds) ==
    IF Len(ds) = 0 THEN 0 ELSE DigitValue[Head(ds)] * 10 ^ (Len(ds) - 1) + OctaveOf(Tail(ds))

RECURSIVE Decimal(_)
Decimal(n) ==
    LET d == CHOOSE c \in DigitChars : DigitValue[c] = n % 10
    IN  IF n < 10 THEN <<d>> ELSE Decimal(n \div 10) \o <<d>>

\* C6 (as claimed): malformed input is rejected where it is parsed or looked
\* up and yields no waveform: a Note whose scale string is not letter,
\* optional accidental, digits fails with invalid-scale-format (Exception),
\* nested in Chord/Series or not; a key signature applied to, or a factor
\* looked up for, a letter outside C, D, E, F, G, A, B fails with invalid-key
\* (KeyError).
C6_MalformedRejected ==
    /\ (out.op = "_freq_from_scale" /\ ~WellFormed(scale)) => out.status = "Exception"
    /\ (out.op = "generate_wave" /\ ~WellFormed(scale)) =>
          (out.status = "Exception" /\ out.wave = <<>>)
    /\ (out.op = "KeyConfig"
          /\ \E i \in DOMAIN normalize_scale_argument(out.scales) :
                normalize_scale_argument(out.scales)[i] \notin Letters) =>
          out.status = "KeyError"
    /\ (out.op = "factor_for_key" /\ out.key \notin Letters) => out.status = "KeyError"

\* C8: for every valid scale string and every KeyConfig the pitch of a Note is
\* 12*(octave - 4) + BASE_KEY_FACTOR[letter] + adjustment[letter] + (1 for '#',
\* -1 for 'b') semitones from A4, the letter in either case; one octave up is
\* exactly 12 semitones more; "a4" under the default KeyConfig is 0.
C8_Pitch ==
    out.op = "_freq_from_scale" =>
        /\ \A letter \in LetterChars, accidental \in Accidentals, k \in 2..Len(scale) :
              Decomposes(scale, letter, accidental, k) =>
                  LET octave == OctaveOf(SubSeq(scale, k, Len(scale)))
                      above  == <<letter>> \o accidental \o Decimal(octave + 1)
                  IN  /\ out.status = "ok"
                      /\ out.freq = 12 * (octave - 4)
                                      + BASE_KEY_FACTOR[LetterName(letter)]
                                      + Adj(heap, out.key_conf)[LetterName(letter)]
                                      + AccidentalSteps(accidental)
                      /\ _freq_from_scale(heap, above, out.key_conf).status = "ok"
                      /\ _freq_from_scale(heap, above, out.key_conf).freq = out.freq + 12
        /\ (scale = <<"a", "4">> /\ Adj(heap, out.key_conf) = BASE_KEY_CHANGE) =>
              (out.status = "ok" /\ out.freq = 0)

C8_Witness ==
    /\ out.op = "_freq_from_scale"
    /\ scale = <<"b", "b", "4">>
    /\ out.key_conf = 1
    /\ heap[1]["B"] = -1
    /\ out.status = "ok"
    /\ out.freq = 0

\* ------------------------------------------------------------ rests and series
\* floor(duration * 60 / tempo * sampleRate)
FloorCount(length) == (length * 60 * rate) \div bpm

RECURSIVE SumOfCounts(_, _)
SumOfCounts(components, i) ==
    IF i > Len(components) THEN 0
    ELSE FloorCount(components[i].length) + SumOfCounts(components, i + 1)

TwoRests == Series(<<Rest(1), Rest(1)>>, 0)

Rest1Wave == generate_wave(Rest(1), bpm, rate, 0, heap, <<>>).wave

Rest2Wave == generate_wave(Rest(2), bpm, rate, 0, heap, <<>>).wave

C7_RenderTotal ==
    out.op = "generate_wave" =>
        /\ component.kind = "Rest" =>
              (out.status = "ok" /\ out.wave = [t \in 1..FloorCount(component.length) |-> 0])
        /\ component.kind = "Series" =>
              (out.status = "ok" /\ Len(out.wave) = SumOfCounts(component.components, 1))

\* ------------------------------------------------------------ trees
\* C4 (as claimed): a Chord without children renders a zero-length sequence.
C4_EmptyChord ==
    (out.op = "generate_wave" /\ component.kind = "Chord" /\ component.components = <<>>) =>
        (out.status = "ok" /\ out.wave = <<>>)

\* The paths (child positions from the root) of the Note leaves of a tree.
RECURSIVE NotePaths(_, _)
NotePaths(node, path) ==
    CASE node.kind = "Note" -> {path}
      [] node.kind = "Rest" -> {}
      [] OTHER -> UNION { NotePaths(node.components[i], Append(path, i)) :
                            i \in 1..Len(node.components) }

\* The sum, letter by letter, of the own KeyConfigs of the Chords and Series on
\* the path from node down to a leaf, over the all-zero root key.
RECURSIVE KeyAt(_, _)
KeyAt(node, path) ==
    IF path = <<>> THEN BASE_KEY_CHANGE
    ELSE LET below == KeyAt(node.components[Head(path)], Tail(path))
         IN  [key \in Letters |-> Adj(heap, node.key_conf)[key] + below[key]]

\* C2: the KeyConfig a Note leaf's pitch is looked up in is, letter by letter,
\* the sum of the own KeyConfigs of its Chord/Series ancestors (None counting
\* as 0) over the all-zero root key; nothing outside a node's subtree sees
\* that node's KeyConfig.
C2_InheritedKey ==
    out.op = "generate_wave" =>
        /\ \A l \in out.lookups :
              /\ l.path \in NotePaths(component, <<>>)
              /\ l.conf = KeyAt(component, l.path)
        /\ out.status = "ok" => {l.path : l \in out.lookups} = NotePaths(component, <<>>)

C2_Witness ==
    /\ out.op = "generate_wave"
    /\ out.status = "ok"
    /\ component.key_conf = 1
    /\ \E l \in out.lookups :
          /\ Len(l.path) = 3
          /\ l.conf["F"] = 2
          /\ l.conf["B"] = -1
    /\ \E l \in out.lookups :
          /\ Len(l.path) = 1
          /\ l.conf["F"] = 1
          /\ l.conf["B"] = 0

Perms(n) == { p \in [1..n -> 1..n] : \A i, j \in 1..n : p[i] = p[j] => i = j }

RECURSIVE SumAt(_, _, _)
SumAt(waves, i, t) ==
    IF i > Len(waves) THEN 0
    ELSE (IF Len(waves[i]) >= t THEN waves[i][t] ELSE 0) + SumAt(waves, i + 1, t)

RECURSIVE MaxLen(_, _)
MaxLen(waves, i) ==
    IF i > Len(waves) THEN 0 ELSE Max(Len(waves[i]), MaxLen(waves, i + 1))

\* The children of the root rendered one by one under the root's key.
ChildWaves ==
    LET k == merge(heap, component.key_conf, 0)
    IN  [i \in 1..Len(component.components) |->
            generate_wave(component.components[i], bpm, rate, k.ref, k.heap, <<i>>).wave]

C10_RenderFrame ==
    [][ out'.op = "generate_wave" =>
            /\ heap' = heap
            /\ component' = component
            /\ out'.handed \cap Refs(heap) = {}
            /\ (out.op = "generate_wave" =>
                    (out'.status = out.status /\ out'.wave = out.wave)) ]_vars

C10_Witness ==
    /\ out.op = "generate_wave"
    /\ out.status = "ok"
    /\ component.key_conf = 1
    /\ Cardinality(out.handed) >= 3
    /\ \E t \in 1..Len(out.wave) : out.wave[t] # 0

====
